---- MODULE Spec2Model ----
(***************************************************************************)
(* Model of xdsl/__init__.py: the IRDL dialect import hook.                *)
(*                                                                         *)
(*   IRDLDialectFinder.find_spec   (the Resolver)                          *)
(*   IRDLDialectLoader.exec_module (the Materializer)                      *)
(*                                                                         *)
(* and of the host runtime's import protocol that drives them.  Python     *)
(* strings are modelled as sequences of one-character strings so that      *)
(* split, join, basename, dirname, splitext and capitalize are computed    *)
(* character by character, as the library computes them.                   *)
(***************************************************************************)
EXTENDS Integers, Sequences, FiniteSets, TLC

(***************************************************************************)
(* Python str helpers                                                      *)
(***************************************************************************)
LowerCase == <<"a","b","c","d","e","f","g","h","i","j","k","l","m",
               "n","o","p","q","r","s","t","u","v","w","x","y","z">>

UpperCase == <<"A","B","C","D","E","F","G","H","I","J","K","L","M",
               "N","O","P","Q","R","S","T","U","V","W","X","Y","Z">>

\* str.upper() on one character
Upper(c) ==
  IF \E i \in DOMAIN LowerCase : LowerCase[i] = c
  THEN UpperCase[CHOOSE i \in DOMAIN LowerCase : LowerCase[i] = c]
  ELSE c

\* str.lower() on one character
Lower(c) ==
  IF \E i \in DOMAIN UpperCase : UpperCase[i] = c
  THEN LowerCase[CHOOSE i \in DOMAIN UpperCase : UpperCase[i] = c]
  ELSE c

\* A variant of str.capitalize() that only touches the first character.
CapitalizeKeepRest(s) ==
  [i \in DOMAIN s |-> IF i = 1 THEN Upper(s[i]) ELSE s[i]]

\* str.capitalize(): first character upper-cased, all the others lower-cased.
Capitalize(s) ==
  [i \in DOMAIN s |-> IF i = 1 THEN Upper(s[i]) ELSE Lower(s[i])]

\* str.rfind(c) + 1: the 1-based index of the last c in s, 0 when there is none
RFind(s, c) ==
  IF \E i \in DOMAIN s : s[i] = c
  THEN CHOOSE i \in DOMAIN s : s[i] = c /\ \A j \in DOMAIN s : s[j] = c => j <= i
  ELSE 0

\* s[i:] for a 0-based Python start index i
From(s, i) == SubSeq(s, i + 1, Len(s))

\* s[:i] for a 0-based Python end index i
Upto(s, i) == SubSeq(s, 1, i)

\* s.rstrip("/")
RECURSIVE RStripSlash(_)
RStripSlash(s) ==
  IF s # <<>> /\ s[Len(s)] = "/" THEN RStripSlash(Upto(s, Len(s) - 1)) ELSE s

\* s.split(".")[-1]
LastSegment(s) == From(s, RFind(s, "."))

(***************************************************************************)
(* posixpath                                                               *)
(***************************************************************************)
\* os.path.join(a, b)
PathJoin(a, b) ==
  IF b # <<>> /\ b[1] = "/" THEN b
  ELSE IF a = <<>> \/ a[Len(a)] = "/" THEN a \o b
  ELSE a \o <<"/">> \o b

\* os.path.basename(p)
BaseName(p) == From(p, RFind(p, "/"))

\* os.path.dirname(p)
DirName(p) ==
  LET head == Upto(p, RFind(p, "/"))
  IN  IF head # <<>> /\ \E i \in DOMAIN head : head[i] # "/"
      THEN RStripSlash(head)
      ELSE head

\* os.path.splitext(p): <<root, ext>>
SplitExt(p) ==
  LET sep == RFind(p, "/")
      dot == RFind(p, ".")
  IN  IF dot > sep /\ \E k \in (sep + 1)..(dot - 1) : p[k] # "."
      THEN <<Upto(p, dot - 1), From(p, dot - 1)>>
      ELSE <<p, <<>>>>

\* The components of a path: the maximal runs of characters other than "/".
RECURSIVE Components(_)
Components(p) ==
  IF p = <<>> THEN <<>>
  ELSE IF p[1] = "/" THEN Components(Tail(p))
  ELSE LET n == IF \E i \in DOMAIN p : p[i] = "/"
                THEN (CHOOSE i \in DOMAIN p :
                        p[i] = "/" /\ \A j \in 1..(i - 1) : p[j] # "/") - 1
                ELSE Len(p)
       IN  <<Upto(p, n)>> \o Components(From(p, n))

(***************************************************************************)
(* Bounds of the model                                                     *)
(***************************************************************************)
\* import requests and direct find_spec calls made, over all process runs
MaxRequests == 2

(***************************************************************************)
(* Names, directories and files                                            *)
(***************************************************************************)
IrdlExt == <<".","i","r","d","l">>

PyiExt == <<".","p","y","i">>

\* the fully-qualified names requested
FullNames == { <<"a","B">>, <<"c",".","a","B">>, <<"c">> }

\* os.getcwd()
Cwd == <<"/","d">>

\* the directories that exist, as component sequences (<<>> is the root)
Dirs == { <<>>, <<<<"d">>>>, <<<<"e">>>> }

\* the `path` arguments of find_spec: None, or a sequence of directory strings
NonePath == [given |-> FALSE, entries |-> <<>>]

SomePath(entries) == [given |-> TRUE, entries |-> entries]

\* the requests made: a fully-qualified name and a `path` argument
Requests ==
  { [name |-> <<"a","B">>, path |-> NonePath],
    [name |-> <<"a","B">>, path |-> SomePath(<< <<"/","e">>, <<"/","d">> >>)],
    [name |-> <<"a","B">>, path |-> SomePath(<< <<".">> >>)],
    [name |-> <<"a","B">>, path |-> SomePath(<< <<>> >>)],
    [name |-> <<"c",".","a","B">>,
     path |-> SomePath(<< <<"/","e">>, <<"/","d">> >>)],
    [name |-> <<"c">>, path |-> NonePath] }

\* The file a path string names: relative paths are taken from the current
\* directory, repeated slashes and "." components do not count.
Resolve(p) ==
  LET abs == IF p # <<>> /\ p[1] = "/" THEN p ELSE Cwd \o <<"/">> \o p
  IN  SelectSeq(Components(abs), LAMBDA c : c # <<".">>)

\* the directory part of a resolved location
Parent(loc) == SubSeq(loc, 1, Len(loc) - 1)

(***************************************************************************)
(* External collaborators: front-end, symbol table, builder, stub renderer *)
(***************************************************************************)
\* lookup_symbol's "not found" result (None)
NoneNode ==
  [sym_name |-> <<>>, kind |-> "None", attributes |-> <<>>,
   operations |-> <<>>, buildable |-> FALSE]

Node(name, kind, attrs, ops, buildable) ==
  [sym_name |-> name, kind |-> kind, attributes |-> attrs,
   operations |-> ops, buildable |-> buildable]

\* The description texts used: what each one compiles to.  nodes is the
\* sequence of top-level nodes of the parsed unit.
Sources ==
  [ok |->
     [compiles |-> TRUE,
      nodes |-> << Node(<<"a","B">>, "irdl.dialect", << <<"T">> >>,
                        << <<"O">>, <<"P">> >>, TRUE) >>],
   clash |->
     [compiles |-> TRUE,
      nodes |-> << Node(<<"a","B">>, "irdl.dialect", << <<"A","b">> >>,
                        << <<"O">> >>, TRUE) >>],
   dup |->
     [compiles |-> TRUE,
      nodes |-> << Node(<<"a","B">>, "irdl.dialect", << <<"O">> >>,
                        << <<"O">> >>, TRUE) >>],
   nodecl |->
     [compiles |-> TRUE,
      nodes |-> << Node(<<"z">>, "irdl.dialect", <<>>, << <<"O">> >>, TRUE) >>],
   notdialect |->
     [compiles |-> TRUE,
      nodes |-> << Node(<<"a","B">>, "func.func", <<>>, <<>>, FALSE) >>],
   nobuild |->
     [compiles |-> TRUE,
      nodes |-> << Node(<<"a","B">>, "irdl.dialect", <<>>, << <<"O">> >>,
                        FALSE) >>],
   syntax |-> [compiles |-> FALSE, nodes |-> <<>>],
   okc |->
     [compiles |-> TRUE,
      nodes |-> << Node(<<"c">>, "irdl.dialect", <<>>, << <<"Q">> >>, TRUE) >>],
   shadow |->
     [compiles |-> TRUE,
      nodes |-> << Node(<<"a","B">>, "irdl.dialect", <<>>,
                        << <<"_","_","n","a","m","e","_","_">> >>, TRUE) >>]]

\* the content of a description file holding text t (one line, one token)
SourceContent(t) == << <<t>> >>

\* file.read() of a description file: the text it holds
ReadText(content) == content[1][1]

\* Parser(ctx, text, path).parse_module(): the parsed unit, when text compiles
ParseModule(t) == Sources[t].nodes

\* SymbolTable.lookup_symbol(irdl_module, name): the first top-level node of
\* that name, None when there is none
LookupSymbol(irdl_module, name) ==
  IF \E i \in DOMAIN irdl_module : irdl_module[i].sym_name = name
  THEN irdl_module[CHOOSE i \in DOMAIN irdl_module :
         /\ irdl_module[i].sym_name = name
         /\ \A j \in DOMAIN irdl_module :
              irdl_module[j].sym_name = name => i <= j]
  ELSE NoneNode

\* the Dialect object make_dialect builds from a dialect declaration
NoDialect == [name |-> <<>>, attributes |-> <<>>, operations |-> <<>>]

MakeDialect(dialect_op) ==
  [name |-> dialect_op.sym_name,
   attributes |-> dialect_op.attributes,
   operations |-> dialect_op.operations]

\* DialectStubGenerator(dialect).generate_dialect_stubs(): one declaration
\* per attribute and per operation, in the dialect's order
GenerateDialectStubs(dialect) ==
  [i \in 1..(Len(dialect.attributes) + Len(dialect.operations)) |->
     IF i <= Len(dialect.attributes)
     THEN <<"class ">> \o dialect.attributes[i] \o <<"(Attribute)">>
     ELSE <<"class ">> \o dialect.operations[i - Len(dialect.attributes)]
            \o <<"(Operation)">>]

(***************************************************************************)
(* State                                                                   *)
(***************************************************************************)
VARIABLES
  fs,             \* the files: resolved location -> content (lines of tokens)
  sysModules,     \* sys.modules: fully-qualified name -> module id
  heap,           \* module id -> the module's namespace (name -> value)
  pc,             \* position of the load in progress
  loader,         \* the IRDLDialectLoader of the load: module_name, path
  target,         \* id of the module passed to exec_module
  text,           \* exec_module: the text read from the file
  irdl_module,    \* exec_module: the parsed unit
  dialect_op,     \* exec_module: the node lookup_symbol returned
  dialect,        \* exec_module: the Dialect make_dialect returned
  stubText,       \* exec_module: the rendered stub text
  srcOpen,        \* the description file is open
  stubOpen,       \* the stub file is open
  exc,            \* the exception the last load ended with ("" for none)
  steps,          \* the steps the load in progress has executed so far
  frontEndCalls,  \* name -> number of Parser.parse_module calls in this run
  bindCount,      \* name -> number of binding injections in this run
  failedLoads,    \* name -> number of loads that ended in Failed in this run
  builderCalls,   \* make_dialect calls made for the last request
  stubOpens,      \* opens of a stub file for writing, for the last request
  fileOpens,      \* open() calls made for the last request
  loadersCreated, \* IRDLDialectLoader objects created by the last request
  isfileChecks,   \* os.path.isfile calls made by the last request
  request,        \* the last request: kind, name, path
  result,         \* what the last request returned
  requests,       \* requests made so far, over all runs
  run,            \* number of the process run
  nsBefore,       \* the target module's namespace when exec_module was called
  fsBefore,       \* the files when exec_module was called
  stubLog         \* the stub contents left by the successful loads

vars ==
  <<fs, sysModules, heap, pc, loader, target, text, irdl_module, dialect_op,
    dialect, stubText, srcOpen, stubOpen, exc, steps, frontEndCalls,
    bindCount, failedLoads, builderCalls, stubOpens, fileOpens,
    loadersCreated, isfileChecks, request, result, requests, run, nsBefore,
    fsBefore, stubLog>>

(***************************************************************************)
(* Values bound in a module namespace                                      *)
(***************************************************************************)
NoValue == [kind |-> "none", name |-> <<>>, path |-> <<>>]

\* an attribute or operation class of a dialect (kind "attr" or "op")
Entity(kind, name) == [kind |-> kind, name |-> name, path |-> <<>>]

\* the Dialect object, as a value
DialectValue(d) == [kind |-> "dialect", name |-> d.name, path |-> <<>>]

\* the ModuleSpec spec_from_file_location returns; its loader is
\* IRDLDialectLoader(name, path)
SpecValue(name, path) == [kind |-> "spec", name |-> name, path |-> path]

NameAttr == <<"_","_","n","a","m","e","_","_">>

SpecAttr == <<"_","_","s","p","e","c","_","_">>

FileAttr == <<"_","_","f","i","l","e","_","_">>

\* setattr(module, key, value) on a namespace
SetAttr(ns, key, value) ==
  [k \in DOMAIN ns \cup {key} |-> IF k = key THEN value ELSE ns[k]]

\* importlib.util.module_from_spec(spec): the namespace of the new module
ModuleFromSpec(spec) ==
  LET n0 == SetAttr(<<>>, NameAttr, [kind |-> "str", name |-> spec.name,
                                     path |-> <<>>])
      n1 == SetAttr(n0, SpecAttr, spec)
  IN  SetAttr(n1, FileAttr, [kind |-> "str", name |-> <<>>, path |-> spec.path])

(***************************************************************************)
(* IRDLDialectFinder.find_spec                                             *)
(***************************************************************************)
\* a file name taken from the first segment of the name: split(".")[0]
FilenameFirstSegment(fullname) ==
  (IF \E i \in DOMAIN fullname : fullname[i] = "."
   THEN Upto(fullname, (CHOOSE i \in DOMAIN fullname :
                          /\ fullname[i] = "."
                          /\ \A j \in 1..(i - 1) : fullname[j] # ".") - 1)
   ELSE fullname) \o IrdlExt

\* filename = fullname.split(".")[-1] + ".irdl"
Filename(fullname) == LastSegment(fullname) \o IrdlExt

\* a default search path of ["."] in the place of [os.getcwd()]
SearchPathDot(path) == IF path.given THEN path.entries ELSE << <<".">> >>

\* if path is None: path = [os.getcwd()]
SearchPath(path) == IF path.given THEN path.entries ELSE <<Cwd>>

\* a finder that checks the directory of p where it should check p
IsFileChecksDirectory(p) == Parent(Resolve(p)) \in Dirs

\* os.path.isfile(p)
IsFile(p) == Resolve(p) \in DOMAIN fs

\* for entry in path, from the i-th entry on: the index of the entry the loop
\* returns at, 0 when the loop runs to its end
RECURSIVE SearchFrom(_, _, _)
SearchFrom(entries, filename, i) ==
  IF i > Len(entries) THEN 0
  ELSE IF IsFile(PathJoin(entries[i], filename)) THEN i
  ELSE SearchFrom(entries, filename, i + 1)

\* a loop that keeps going after a match: the last matching entry wins
MatchIndexLast(entries, filename) ==
  IF \E i \in DOMAIN entries : IsFile(PathJoin(entries[i], filename))
  THEN CHOOSE i \in DOMAIN entries :
         /\ IsFile(PathJoin(entries[i], filename))
         /\ \A j \in DOMAIN entries :
              IsFile(PathJoin(entries[j], filename)) => j <= i
  ELSE 0

MatchIndex(entries, filename) == SearchFrom(entries, filename, 1)

\* a find_spec without the sys.modules check of lines 88-89
find_spec_NoCacheCheck(fullname, path) ==
  LET entries == SearchPath(path)
      filename == Filename(fullname)
      i == MatchIndex(entries, filename)
  IN  IF i = 0
      THEN [found |-> FALSE, cached |-> FALSE, spec |-> NoValue,
            checks |-> Len(entries), loaders |-> 0]
      ELSE [found |-> TRUE, cached |-> FALSE,
            spec |-> SpecValue(fullname, PathJoin(entries[i], filename)),
            checks |-> i, loaders |-> 1]

\* find_spec(fullname, path): what it returns (found, spec) and what it does
\* on the way (isfile calls, loaders created)
find_spec(fullname, path) ==
  IF fullname \in DOMAIN sysModules
  THEN [found |-> TRUE, cached |-> TRUE,
        spec |-> heap[sysModules[fullname]][SpecAttr],
        checks |-> 0, loaders |-> 0]
  ELSE LET entries == SearchPath(path)
           filename == Filename(fullname)
           i == MatchIndex(entries, filename)
       IN  IF i = 0
           THEN [found |-> FALSE, cached |-> FALSE, spec |-> NoValue,
                 checks |-> Len(entries), loaders |-> 0]
           ELSE [found |-> TRUE, cached |-> FALSE,
                 spec |-> SpecValue(fullname, PathJoin(entries[i], filename)),
                 checks |-> i, loaders |-> 1]

(***************************************************************************)
(* sys.meta_path: the finders the runtime consults, in order               *)
(***************************************************************************)
PyExt == <<".","p","y">>

\* the runtime's own path finder: the index of the first entry that holds a
\* Python source file for fullname, 0 when there is none
NativeIndex(fullname, path) ==
  MatchIndex(SearchPath(path), LastSegment(fullname) \o PyExt)

NativeSpec(fullname, path) ==
  SpecValue(fullname,
            PathJoin(SearchPath(path)[NativeIndex(fullname, path)],
                     LastSegment(fullname) \o PyExt))

\* a registration by sys.meta_path.insert(0, ...)
MetaPathInsertedFirst == <<"irdl", "native">>

\* sys.meta_path.append(IRDLDialectFinder()): after the runtime's finders
MetaPath == <<"native", "irdl">>

\* whether the finder called kind returns a spec for the request
Finds(kind, fullname, path) ==
  IF kind = "native" THEN NativeIndex(fullname, path) # 0
  ELSE find_spec(fullname, path).found

\* the runtime's loop over sys.meta_path: the first finder that returns a
\* spec, "none" when every finder returns None
Winner(fullname, path) ==
  IF \E i \in DOMAIN MetaPath : Finds(MetaPath[i], fullname, path)
  THEN MetaPath[CHOOSE i \in DOMAIN MetaPath :
         /\ Finds(MetaPath[i], fullname, path)
         /\ \A j \in 1..(i - 1) : ~Finds(MetaPath[j], fullname, path)]
  ELSE "none"

\* whether the loop reaches IRDLDialectFinder.find_spec in a request that
\* the runtime's own finder satisfies
ConsultedBeforeNative == MetaPath[1] = "irdl"

(***************************************************************************)
(* IRDLDialectLoader.exec_module: the pure parts                           *)
(***************************************************************************)
\* dialect_name, _ = os.path.splitext(os.path.basename(self.path))
DialectName(path) == SplitExt(BaseName(path))[1]

\* a check that lets None through
IsDialectOpOrNone(node) == node.kind \in {"irdl.dialect", "None"}

\* isinstance(dialect_op, DialectOp)
IsDialectOp(node) == node.kind = "irdl.dialect"

\* assert isinstance(dialect_op, DialectOp): the exception it raises, "" when
\* it raises none
DeclarationCheck(node) == IF IsDialectOp(node) THEN "" ELSE "AssertionError"

\* f"{os.path.dirname(self.path)}/{dialect_name}.pyi"
StubPath(path) == DirName(path) \o <<"/">> \o DialectName(path) \o PyiExt

\* open(..., "a"): the prior content is kept
OpenForAppending(prior) == prior

\* open(..., "w") on a file with content prior: the content after the open
OpenForWriting(prior) == <<>>

\* the lines the first print() writes
StubHeader(path) ==
  << <<"\"\"\"">>,
     <<"This file is automatically generated by xDSL and not meant to be modified.">>,
     <<>>,
     <<"It was generated from ">> \o path,
     <<"\"\"\"">>,
     <<>> >>

\* chain(dialect.attributes, dialect.operations), as the objects bound
BoundObjects(d) ==
  [i \in 1..(Len(d.attributes) + Len(d.operations)) |->
     IF i <= Len(d.attributes)
     THEN Entity("attr", d.attributes[i])
     ELSE Entity("op", d.operations[i - Len(d.attributes)])]

\* a handle name that upper-cases the first character and keeps the others
DialectHandleKeepsRest(d) == CapitalizeKeepRest(d.name)

\* dialect.name.capitalize()
DialectHandle(d) == Capitalize(d.name)

\* for obj in ...: setattr(module, obj.__name__, obj)
RECURSIVE SetAll(_, _)
SetAll(ns, objs) ==
  IF objs = <<>> THEN ns
  ELSE SetAll(SetAttr(ns, Head(objs).name, Head(objs)), Tail(objs))

\* the dialect handle bound before the entities instead of after them
BindingsHandleFirst(ns, d) ==
  SetAll(SetAttr(ns, DialectHandle(d), DialectValue(d)), BoundObjects(d))

\* the bindings with the Dialect object bound under its raw name as well
BindingsAlsoRawName(ns, d) ==
  SetAttr(SetAttr(SetAll(ns, BoundObjects(d)), DialectHandle(d),
                  DialectValue(d)),
          d.name, DialectValue(d))

\* lines 73-75: the namespace after the bindings are injected
Bindings(ns, d) ==
  SetAttr(SetAll(ns, BoundObjects(d)), DialectHandle(d), DialectValue(d))

\* exec_module without its stub writing block
NextStepNoStub(p) ==
  CASE p = "Matched"    -> "Reading"
    [] p = "Reading"    -> "Compiling"
    [] p = "Compiling"  -> "Locating"
    [] p = "Locating"   -> "Building"
    [] p = "Building"   -> "Binding"
    [] p = "Binding"    -> "Returning"
    [] OTHER            -> "Loaded"

\* exec_module with the bindings injected before the stub is written
NextStepBindFirst(p) ==
  CASE p = "Matched"    -> "Reading"
    [] p = "Reading"    -> "Compiling"
    [] p = "Compiling"  -> "Locating"
    [] p = "Locating"   -> "Building"
    [] p = "Building"   -> "Binding"
    [] p = "Binding"    -> "StubOpen"
    [] p = "StubOpen"   -> "StubHeader"
    [] p = "StubHeader" -> "StubRender"
    [] p = "StubRender" -> "StubBody"
    [] p = "StubBody"   -> "Returning"
    [] OTHER            -> "Loaded"

\* The order of the statements of exec_module: the step that follows step p
\* when p raises nothing.
NextStep(p) ==
  CASE p = "Matched"    -> "Reading"
    [] p = "Reading"    -> "Compiling"
    [] p = "Compiling"  -> "Locating"
    [] p = "Locating"   -> "Building"
    [] p = "Building"   -> "StubOpen"
    [] p = "StubOpen"   -> "StubHeader"
    [] p = "StubHeader" -> "StubRender"
    [] p = "StubRender" -> "StubBody"
    [] p = "StubBody"   -> "Binding"
    [] p = "Binding"    -> "Returning"
    [] OTHER            -> "Loaded"

(***************************************************************************)
(* Initial state                                                           *)
(***************************************************************************)
DFile == << <<"d">>, <<"a","B">> \o IrdlExt >>

EFile == << <<"e">>, <<"a","B">> \o IrdlExt >>

CFile == << <<"d">>, <<"c">> \o IrdlExt >>

DStub == << <<"d">>, <<"a","B">> \o PyiExt >>

\* a Python source file for the name c, next to c.irdl
CPy == << <<"d">>, <<"c">> \o PyExt >>

\* the files f and a Python source file for c
WithNative(f) ==
  [l \in DOMAIN f \cup {CPy} |-> IF l = CPy THEN << <<"pass">> >> ELSE f[l]]

\* a stub left by an earlier version of the description file
OldStub == << <<"# old stub">> >>

\* The files at the start: "" stands for "no such file".
MkFs(td, te, tc, old) ==
  LET locs == (IF td # "" THEN {DFile} ELSE {})
              \cup (IF te # "" THEN {EFile} ELSE {})
              \cup (IF tc # "" THEN {CFile} ELSE {})
              \cup (IF old THEN {DStub} ELSE {})
  IN  [l \in locs |->
         IF l = DFile THEN SourceContent(td)
         ELSE IF l = EFile THEN SourceContent(te)
         ELSE IF l = CFile THEN SourceContent(tc)
         ELSE OldStub]

InitialFileSystems ==
  { MkFs(td, "", "", TRUE) :
      td \in {"ok", "clash", "dup", "nodecl", "notdialect", "nobuild",
              "syntax"} }
  \cup { MkFs("ok", "", "", FALSE), MkFs("ok", "clash", "", FALSE),
         MkFs("", "clash", "okc", FALSE), MkFs("", "", "", FALSE),
         MkFs("shadow", "", "", FALSE),
         WithNative(MkFs("", "", "okc", FALSE)) }

NoLoader == [module_name |-> <<>>, path |-> <<>>]

NoRequest == [kind |-> "none", name |-> <<>>, path |-> NonePath]

NoResult == [kind |-> "none", id |-> 0, spec |-> NoValue]

\* the state of a process that has just started
ProcessStart ==
  /\ sysModules = <<>>
  /\ heap = <<>>
  /\ pc = "Unresolved"
  /\ loader = NoLoader
  /\ target = 0
  /\ text = ""
  /\ irdl_module = <<>>
  /\ dialect_op = NoneNode
  /\ dialect = NoDialect
  /\ stubText = <<>>
  /\ srcOpen = FALSE
  /\ stubOpen = FALSE
  /\ exc = ""
  /\ steps = <<>>
  /\ frontEndCalls = [n \in FullNames |-> 0]
  /\ bindCount = [n \in FullNames |-> 0]
  /\ failedLoads = [n \in FullNames |-> 0]
  /\ builderCalls = 0
  /\ stubOpens = 0
  /\ fileOpens = 0
  /\ loadersCreated = 0
  /\ isfileChecks = 0
  /\ request = NoRequest
  /\ result = NoResult
  /\ nsBefore = <<>>

Init ==
  /\ fs \in InitialFileSystems
  /\ fsBefore = fs
  /\ run = 1
  /\ requests = 0
  /\ stubLog = {}
  /\ ProcessStart

(***************************************************************************)
(* The host runtime: import requests and direct calls of the finder        *)
(***************************************************************************)
\* no load is in progress
Idle == pc \in {"Unresolved", "Loaded", "Failed"}

locals == <<text, irdl_module, dialect_op, dialect, stubText>>

\* the counts kept over the whole process run
lifetime == <<frontEndCalls, bindCount, failedLoads>>

\* the counts of what the last request did
counters == <<builderCalls, stubOpens, fileOpens>>

\* a request starts: nothing was built or opened for it yet
ResetCounters ==
  /\ builderCalls' = 0
  /\ stubOpens' = 0
  /\ fileOpens' = 0

history == <<nsBefore, fsBefore, stubLog>>

Without(f, k) == [x \in DOMAIN f \ {k} |-> f[x]]

\* import n, with n already in sys.modules: the runtime returns the cached
\* module and consults no finder
ImportCached(n, p) ==
  /\ Idle /\ requests < MaxRequests
  /\ n \in DOMAIN sysModules
  /\ request' = [kind |-> "import", name |-> n, path |-> p]
  /\ result' = [kind |-> "module", id |-> sysModules[n], spec |-> NoValue]
  /\ requests' = requests + 1
  /\ ResetCounters
  /\ loadersCreated' = 0
  /\ isfileChecks' = 0
  /\ UNCHANGED <<fs, sysModules, heap, pc, exc, loader, target, locals,
                 srcOpen, stubOpen, steps, lifetime, run, history>>

\* import n, find_spec returns None: ModuleNotFoundError
ImportNotFound(n, p) ==
  /\ Idle /\ requests < MaxRequests
  /\ n \notin DOMAIN sysModules
  /\ Winner(n, p) = "none"
  /\ request' = [kind |-> "import", name |-> n, path |-> p]
  /\ result' = [kind |-> "ModuleNotFoundError", id |-> 0, spec |-> NoValue]
  /\ requests' = requests + 1
  /\ isfileChecks' = find_spec(n, p).checks
  /\ loadersCreated' = find_spec(n, p).loaders
  /\ ResetCounters
  /\ UNCHANGED <<fs, sysModules, heap, pc, exc, loader, target, locals,
                 srcOpen, stubOpen, steps, lifetime, run, history>>

\* import n, find_spec returns a spec: the runtime creates the module, puts
\* it in sys.modules and is about to call spec.loader.exec_module(module)
ImportMatched(n, p) ==
  /\ Idle /\ requests < MaxRequests
  /\ n \notin DOMAIN sysModules
  /\ Winner(n, p) = "irdl"
  /\ LET r == find_spec(n, p)
         m == ModuleFromSpec(r.spec)
     IN  /\ request' = [kind |-> "import", name |-> n, path |-> p]
         /\ result' = NoResult
         /\ requests' = requests + 1
         /\ isfileChecks' = r.checks
         /\ loadersCreated' = r.loaders
         /\ loader' = [module_name |-> n, path |-> r.spec.path]
         /\ heap' = Append(heap, m)
         /\ target' = Len(heap) + 1
         /\ sysModules' = SetAttr(sysModules, n, Len(heap) + 1)
         /\ nsBefore' = m
         /\ fsBefore' = fs
  /\ pc' = "Matched"
  /\ exc' = ""
  /\ steps' = <<>>
  /\ text' = ""
  /\ irdl_module' = <<>>
  /\ dialect_op' = NoneNode
  /\ dialect' = NoDialect
  /\ stubText' = <<>>
  /\ ResetCounters
  /\ UNCHANGED <<fs, srcOpen, stubOpen, lifetime, run, stubLog>>

\* import n, a finder of the runtime returns a spec: the runtime loads the
\* module itself and puts it in sys.modules; exec_module is not called
ImportNative(n, p) ==
  /\ Idle /\ requests < MaxRequests
  /\ n \notin DOMAIN sysModules
  /\ Winner(n, p) = "native"
  /\ request' = [kind |-> "import", name |-> n, path |-> p]
  /\ result' = [kind |-> "module", id |-> Len(heap) + 1, spec |-> NoValue]
  /\ requests' = requests + 1
  /\ heap' = Append(heap, ModuleFromSpec(NativeSpec(n, p)))
  /\ sysModules' = SetAttr(sysModules, n, Len(heap) + 1)
  /\ isfileChecks' = IF ConsultedBeforeNative THEN find_spec(n, p).checks
                     ELSE 0
  /\ loadersCreated' = 0
  /\ ResetCounters
  /\ UNCHANGED <<fs, pc, exc, loader, target, locals, srcOpen, stubOpen,
                 steps, lifetime, run, history>>

\* a direct call finder.find_spec(n, p), outside an import
FindSpecCall(n, p) ==
  /\ Idle /\ requests < MaxRequests
  /\ LET r == find_spec(n, p)
     IN  /\ request' = [kind |-> "find_spec", name |-> n, path |-> p]
         /\ result' = [kind |-> IF r.found THEN "spec" ELSE "None",
                       id |-> 0, spec |-> r.spec]
         /\ isfileChecks' = r.checks
         /\ loadersCreated' = r.loaders
  /\ requests' = requests + 1
  /\ ResetCounters
  /\ UNCHANGED <<fs, sysModules, heap, pc, exc, loader, target, locals,
                 srcOpen, stubOpen, steps, lifetime, run, history>>

\* the process ends and a new one starts: the files stay
Restart ==
  /\ Idle
  /\ request.kind # "none"
  /\ run' = run + 1
  /\ sysModules' = <<>>
  /\ heap' = <<>>
  /\ pc' = "Unresolved"
  /\ loader' = NoLoader
  /\ target' = 0
  /\ text' = ""
  /\ irdl_module' = <<>>
  /\ dialect_op' = NoneNode
  /\ dialect' = NoDialect
  /\ stubText' = <<>>
  /\ srcOpen' = FALSE
  /\ stubOpen' = FALSE
  /\ exc' = ""
  /\ steps' = <<>>
  /\ frontEndCalls' = [n \in FullNames |-> 0]
  /\ bindCount' = [n \in FullNames |-> 0]
  /\ failedLoads' = [n \in FullNames |-> 0]
  /\ builderCalls' = 0
  /\ stubOpens' = 0
  /\ fileOpens' = 0
  /\ loadersCreated' = 0
  /\ isfileChecks' = 0
  /\ request' = NoRequest
  /\ result' = NoResult
  /\ nsBefore' = <<>>
  /\ UNCHANGED <<fs, fsBefore, stubLog, requests>>

(***************************************************************************)
(* IRDLDialectLoader.exec_module, statement by statement                   *)
(***************************************************************************)
\* the statement at pc completes: go on with the next one
Advance ==
  /\ pc' = NextStep(pc)
  /\ steps' = Append(steps, pc)
  /\ UNCHANGED <<exc, sysModules, failedLoads, result>>

\* what exec_module does to sys.modules when it raises, and what it would do
\* if it took its own module out of the cache (the code has no such statement)
CacheAfterRaiseUnregisters(cache, name) == Without(cache, name)

CacheAfterRaise(cache, name) == cache

\* on leaving the with blocks by an exception: whether a file that was open
\* stays open; StaysOpenWithoutWith is an open() outside a with block
StaysOpenWithoutWith(wasOpen) == wasOpen

StaysOpen(wasOpen) == FALSE

\* The statement at pc raises e: the with blocks close the open files and the
\* exception leaves exec_module.
Raise(e) ==
  /\ pc' = "Raised"
  /\ exc' = e
  /\ steps' = Append(steps, pc)
  /\ srcOpen' = StaysOpen(srcOpen)
  /\ stubOpen' = StaysOpen(stubOpen)
  /\ sysModules' = CacheAfterRaise(sysModules, loader.module_name)
  /\ UNCHANGED <<failedLoads, result>>

\* exec_module has raised: the runtime takes the module out of sys.modules
\* and re-raises the exception to the importer
ImportFails ==
  /\ pc = "Raised"
  /\ pc' = "Failed"
  /\ sysModules' = Without(sysModules, loader.module_name)
  /\ failedLoads' = [failedLoads EXCEPT ![loader.module_name] = @ + 1]
  /\ result' = [kind |-> "error", id |-> 0, spec |-> NoValue]
  /\ UNCHANGED <<fs, heap, exc, loader, target, locals, srcOpen, stubOpen,
                 steps, frontEndCalls, bindCount, counters, loadersCreated,
                 isfileChecks, request, requests, run, history>>

frame == <<loader, target, loadersCreated, isfileChecks, request, requests,
           run, history>>

\* the files as exec_module sees them
SourceLoc == Resolve(loader.path)

StubLoc == Resolve(StubPath(loader.path))

\* line 42: open(self.path)
OpenSource ==
  /\ pc = "Matched"
  /\ SourceLoc \in DOMAIN fs
  /\ fileOpens' = fileOpens + 1
  /\ srcOpen' = TRUE
  /\ Advance
  /\ UNCHANGED <<fs, heap, locals, stubOpen, frontEndCalls, bindCount,
                 builderCalls, stubOpens, frame>>

\* line 42: open(self.path) fails (no permission, I/O error)
OpenSourceFails ==
  /\ pc = "Matched"
  /\ fileOpens' = fileOpens + 1
  /\ Raise("OSError")
  /\ UNCHANGED <<fs, heap, locals, frontEndCalls, bindCount, builderCalls,
                 stubOpens, frame>>

\* line 47: file.read()
ReadSource ==
  /\ pc = "Reading"
  /\ text' = ReadText(fs[SourceLoc])
  /\ Advance
  /\ UNCHANGED <<fs, heap, irdl_module, dialect_op, dialect, stubText,
                 srcOpen, stubOpen, frontEndCalls, bindCount, builderCalls,
                 stubOpens, fileOpens, frame>>

\* line 47: file.read() fails
ReadSourceFails ==
  /\ pc = "Reading"
  /\ Raise("OSError")
  /\ UNCHANGED <<fs, heap, locals, frontEndCalls, bindCount, builderCalls,
                 stubOpens, fileOpens, frame>>

\* lines 44-47: the front-end compiles the text
Compile ==
  /\ pc = "Compiling"
  /\ Sources[text].compiles
  /\ frontEndCalls' = [frontEndCalls EXCEPT ![loader.module_name] = @ + 1]
  /\ irdl_module' = ParseModule(text)
  /\ Advance
  /\ UNCHANGED <<fs, heap, text, dialect_op, dialect, stubText, srcOpen,
                 stubOpen, bindCount, builderCalls, stubOpens, fileOpens,
                 frame>>

\* lines 44-47: the front-end rejects the text
CompileFails ==
  /\ pc = "Compiling"
  /\ ~Sources[text].compiles
  /\ frontEndCalls' = [frontEndCalls EXCEPT ![loader.module_name] = @ + 1]
  /\ Raise("ParseError")
  /\ UNCHANGED <<fs, heap, locals, bindCount, builderCalls, stubOpens,
                 fileOpens, frame>>

\* lines 50-53: the declaration named after the file is a dialect
Locate ==
  /\ pc = "Locating"
  /\ DeclarationCheck(LookupSymbol(irdl_module, DialectName(loader.path))) = ""
  /\ dialect_op' = LookupSymbol(irdl_module, DialectName(loader.path))
  /\ Advance
  /\ UNCHANGED <<fs, heap, text, irdl_module, dialect, stubText, srcOpen,
                 stubOpen, frontEndCalls, bindCount, builderCalls, stubOpens,
                 fileOpens, frame>>

\* lines 50-53: the assertion fails
LocateFails ==
  /\ pc = "Locating"
  /\ DeclarationCheck(LookupSymbol(irdl_module, DialectName(loader.path))) # ""
  /\ dialect_op' = LookupSymbol(irdl_module, DialectName(loader.path))
  /\ Raise(DeclarationCheck(LookupSymbol(irdl_module,
                                         DialectName(loader.path))))
  /\ UNCHANGED <<fs, heap, text, irdl_module, dialect, stubText,
                 frontEndCalls, bindCount, builderCalls, stubOpens, fileOpens,
                 frame>>

\* line 54: make_dialect(dialect_op)
Build ==
  /\ pc = "Building"
  /\ dialect_op.buildable
  /\ builderCalls' = builderCalls + 1
  /\ dialect' = MakeDialect(dialect_op)
  /\ Advance
  /\ UNCHANGED <<fs, heap, text, irdl_module, dialect_op, stubText, srcOpen,
                 stubOpen, frontEndCalls, bindCount, stubOpens, fileOpens,
                 frame>>

\* line 54: make_dialect rejects the declaration
BuildFails ==
  /\ pc = "Building"
  /\ ~dialect_op.buildable
  /\ builderCalls' = builderCalls + 1
  /\ Raise("BuildError")
  /\ UNCHANGED <<fs, heap, locals, frontEndCalls, bindCount, stubOpens,
                 fileOpens, frame>>

\* lines 55-57: open(stub path, "w") creates or truncates the stub
OpenStub ==
  /\ pc = "StubOpen"
  /\ Parent(StubLoc) \in Dirs
  /\ fileOpens' = fileOpens + 1
  /\ stubOpens' = stubOpens + 1
  /\ fs' = SetAttr(fs, StubLoc,
                   OpenForWriting(IF StubLoc \in DOMAIN fs
                                  THEN fs[StubLoc] ELSE <<>>))
  /\ stubOpen' = TRUE
  /\ Advance
  /\ UNCHANGED <<heap, locals, srcOpen, frontEndCalls, bindCount,
                 builderCalls, frame>>

\* lines 55-57: the open fails (no such directory, no permission)
OpenStubFails ==
  /\ pc = "StubOpen"
  /\ fileOpens' = fileOpens + 1
  /\ stubOpens' = stubOpens + 1
  /\ Raise("OSError")
  /\ UNCHANGED <<fs, heap, locals, frontEndCalls, bindCount, builderCalls,
                 frame>>

\* lines 58-67: print(header, file=stubfile)
PrintHeader ==
  /\ pc = "StubHeader"
  /\ fs' = [fs EXCEPT ![StubLoc] = @ \o StubHeader(loader.path)]
  /\ Advance
  /\ UNCHANGED <<heap, locals, srcOpen, stubOpen, lifetime, counters, frame>>

\* lines 58-67: the write fails (disk full)
PrintHeaderFails ==
  /\ pc = "StubHeader"
  /\ Raise("OSError")
  /\ UNCHANGED <<fs, heap, locals, frontEndCalls, bindCount, builderCalls,
                 stubOpens, fileOpens, frame>>

\* line 69: DialectStubGenerator(dialect).generate_dialect_stubs()
RenderStubs ==
  /\ pc = "StubRender"
  /\ stubText' = GenerateDialectStubs(dialect)
  /\ Advance
  /\ UNCHANGED <<fs, heap, text, irdl_module, dialect_op, dialect, srcOpen,
                 stubOpen, lifetime, counters, frame>>

\* line 69: the renderer raises
RenderStubsFails ==
  /\ pc = "StubRender"
  /\ Raise("RenderError")
  /\ UNCHANGED <<fs, heap, locals, frontEndCalls, bindCount, builderCalls,
                 stubOpens, fileOpens, frame>>

\* lines 68-71: print(stubs, file=stubfile), and the with block closes it
PrintStubs ==
  /\ pc = "StubBody"
  /\ fs' = [fs EXCEPT ![StubLoc] = @ \o stubText]
  /\ stubOpen' = FALSE
  /\ Advance
  /\ UNCHANGED <<heap, locals, srcOpen, lifetime, counters, frame>>

\* lines 68-71: the write fails (disk full)
PrintStubsFails ==
  /\ pc = "StubBody"
  /\ Raise("OSError")
  /\ UNCHANGED <<fs, heap, locals, frontEndCalls, bindCount, builderCalls,
                 stubOpens, fileOpens, frame>>

\* lines 73-75: the bindings are injected in the module
Bind ==
  /\ pc = "Binding"
  /\ heap' = [heap EXCEPT ![target] = Bindings(@, dialect)]
  /\ bindCount' = [bindCount EXCEPT ![loader.module_name] = @ + 1]
  /\ Advance
  /\ UNCHANGED <<fs, locals, srcOpen, stubOpen, frontEndCalls, builderCalls,
                 stubOpens, fileOpens, frame>>

\* exec_module returns: the outer with block closes the description file and
\* the runtime hands the module to the caller
Return ==
  /\ pc = "Returning"
  /\ pc' = NextStep(pc)
  /\ steps' = Append(steps, pc)
  /\ srcOpen' = FALSE
  /\ result' = [kind |-> "module", id |-> target, spec |-> NoValue]
  /\ stubLog' = stubLog \cup
       {[run |-> run, src |-> SourceLoc, text |-> text, path |-> loader.path,
         at |-> StubLoc,
         stub |-> IF StubLoc \in DOMAIN fs THEN fs[StubLoc] ELSE <<>>]}
  /\ UNCHANGED <<fs, sysModules, heap, loader, target, locals, stubOpen, exc,
                 lifetime, counters, loadersCreated, isfileChecks, request,
                 requests,
                 run, nsBefore, fsBefore>>

(***************************************************************************)
(* Specification                                                           *)
(***************************************************************************)
Next ==
  \/ \E r \in Requests : ImportCached(r.name, r.path)
  \/ \E r \in Requests : ImportNotFound(r.name, r.path)
  \/ \E r \in Requests : ImportMatched(r.name, r.path)
  \/ \E r \in Requests : ImportNative(r.name, r.path)
  \/ \E r \in Requests : FindSpecCall(r.name, r.path)
  \/ ImportFails
  \/ Restart
  \/ OpenSource \/ OpenSourceFails
  \/ ReadSource \/ ReadSourceFails
  \/ Compile \/ CompileFails
  \/ Locate \/ LocateFails
  \/ Build \/ BuildFails
  \/ OpenStub \/ OpenStubFails
  \/ PrintHeader \/ PrintHeaderFails
  \/ RenderStubs \/ RenderStubsFails
  \/ PrintStubs \/ PrintStubsFails
  \/ Bind
  \/ Return

Spec == Init /\ [][Next]_vars

(***************************************************************************)
(* Properties                                                              *)
(***************************************************************************)
Range(q) == {q[i] : i \in DOMAIN q}

\* the last request was the import that ran the load pc speaks of
LoadRequest == request.kind = "import" /\ loadersCreated = 1

FullPipeline ==
  <<"Matched", "Reading", "Compiling", "Locating", "Building", "StubOpen",
    "StubHeader", "StubRender", "StubBody", "Binding", "Returning">>

\* C1: the first request for a name with a valid description file runs the
\* whole pipeline (read, compile, locate, build, stub write, bind), once each;
\* a later import of the same name in the same process returns the very same
\* module and compiles nothing, writes no stub and changes no file or module.
C1_SecondRequestHitsCache ==
  /\ [](pc = "Loaded" /\ LoadRequest =>
          /\ steps = FullPipeline
          /\ builderCalls = 1 /\ stubOpens = 1 /\ fileOpens = 2
          /\ bindCount[loader.module_name] = 1
          /\ frontEndCalls[loader.module_name] >= 1
          /\ result = [kind |-> "module", id |-> target, spec |-> NoValue]
          /\ sysModules[loader.module_name] = target)
  /\ [][(/\ requests' = requests + 1
         /\ request'.kind = "import"
         /\ request'.name \in DOMAIN sysModules)
        => /\ result' = [kind |-> "module", id |-> sysModules[request'.name],
                         spec |-> NoValue]
           /\ frontEndCalls' = frontEndCalls
           /\ stubOpens' = 0 /\ fileOpens' = 0 /\ builderCalls' = 0
           /\ UNCHANGED <<fs, sysModules, heap, bindCount>>]_vars

\* a second import of a loaded name was answered from sys.modules
C1_Witness ==
  /\ request.kind = "import" /\ result.kind = "module" /\ loadersCreated = 0
  /\ pc = "Loaded" /\ request.name = loader.module_name
  /\ frontEndCalls[request.name] = 1
  /\ bindCount[request.name] = 1

\* the names of the entities of dialect d
EntityNames(d) == Range(d.attributes) \cup Range(d.operations)

\* C2 as stated: after a successful load every entity is bound under its own
\* name to itself, and the capitalized dialect name is one more binding, to
\* the Dialect object, also when an entity has that name.
C2_Original ==
  pc = "Loaded" =>
    /\ \A i \in DOMAIN BoundObjects(dialect) :
         /\ BoundObjects(dialect)[i].name \in DOMAIN heap[target]
         /\ heap[target][BoundObjects(dialect)[i].name] = BoundObjects(dialect)[i]
    /\ DialectHandle(dialect) \in DOMAIN heap[target]
    /\ heap[target][DialectHandle(dialect)] = DialectValue(dialect)

\* the last object of that name in the order attributes, operations
LastNamed(d, k) ==
  LET objs == BoundObjects(d)
  IN  objs[CHOOSE i \in DOMAIN objs :
             objs[i].name = k /\ \A j \in DOMAIN objs : objs[j].name = k => j <= i]

\* C2 amended: after a successful load the names bound by the load are the
\* entity names and the capitalized dialect name; the capitalized dialect name
\* is bound to the Dialect object; every other entity name is bound to the
\* last entity of that name (attributes first, then operations), so an entity
\* whose name is shared with no other entity and differs from the capitalized
\* dialect name is bound to itself.
C2_BindingCompleteness ==
  pc = "Loaded" =>
    LET ns == heap[target]
        h == <<Upper(dialect.name[1])>> \o
               [i \in 1..(Len(dialect.name) - 1) |-> Lower(dialect.name[i + 1])]
    IN  /\ DOMAIN ns = DOMAIN nsBefore \cup EntityNames(dialect) \cup {h}
        /\ ns[h] = DialectValue(dialect)
        /\ \A k \in EntityNames(dialect) \ {h} : ns[k] = LastNamed(dialect, k)
        /\ \A k \in DOMAIN nsBefore \ (EntityNames(dialect) \cup {h}) :
             ns[k] = nsBefore[k]

\* a dialect with an entity named like its handle was loaded
C2_Witness ==
  /\ pc = "Loaded"
  /\ DialectHandle(dialect) \in EntityNames(dialect)
  /\ heap[target][DialectHandle(dialect)] = DialectValue(dialect)

\* C3: when a load has ended in Failed, at whichever step, the namespace of
\* the module given to exec_module is what it was when exec_module was called.
C3_NoBindingOnFailure ==
  pc = "Failed" => heap[target] = nsBefore

\* a load failed in the last statement that can fail, the second print
C3_Witness ==
  /\ pc = "Failed" /\ exc = "OSError"
  /\ steps[Len(steps)] = "StubBody"
  /\ dialect # NoDialect

\* the candidate directories of the last request that hold the target file
Holders ==
  {i \in DOMAIN SearchPath(request.path) :
     Resolve(PathJoin(SearchPath(request.path)[i], Filename(request.name)))
       \in DOMAIN fsBefore}

\* C4: when an import matches, the loader's path is the target file name
\* joined to the earliest candidate directory that holds such a file, however
\* many later directories hold one too, and no directory after that one is
\* looked at.
C4_FirstMatchWins ==
  pc = "Matched" =>
    \E i \in Holders :
      /\ \A j \in Holders : i <= j
      /\ loader.path = PathJoin(SearchPath(request.path)[i],
                                Filename(request.name))
      /\ heap[target][SpecAttr] = SpecValue(request.name, loader.path)
      /\ isfileChecks = i

\* an import matched with the file present in two candidate directories
C4_Witness ==
  /\ pc = "Matched"
  /\ Cardinality(Holders) = 2
  /\ Resolve(loader.path) = EFile

\* C5: find_spec for a name that is not in sys.modules and has no description
\* file in any candidate directory returns None (the import ends in
\* ModuleNotFoundError) and changes nothing: no file is opened, created or
\* changed, no loader is created, sys.modules and the modules stay as they are.
C5_NoMatchNoEffect ==
  [][(/\ requests' = requests + 1
      /\ request'.name \notin DOMAIN sysModules
      /\ \A i \in DOMAIN SearchPath(request'.path) :
           Resolve(PathJoin(SearchPath(request'.path)[i],
                            Filename(request'.name))) \notin DOMAIN fs)
     => /\ result'.kind = IF request'.kind = "import"
                          THEN "ModuleNotFoundError" ELSE "None"
        /\ result'.spec = NoValue
        /\ loadersCreated' = 0 /\ fileOpens' = 0
        /\ UNCHANGED <<fs, sysModules, heap, pc>>]_vars

\* find_spec was called for a name with no file and returned None
C5_Witness ==
  /\ request.kind = "find_spec" /\ result.kind = "None"
  /\ request.name \notin DOMAIN sysModules
  /\ isfileChecks = Len(SearchPath(request.path))
  /\ isfileChecks > 0

\* the load in progress has run the lookup and the parsed unit has no
\* top-level node named after the file
MissingDeclaration ==
  /\ "Locating" \in Range(steps)
  /\ \A i \in DOMAIN irdl_module :
       irdl_module[i].sym_name # DialectName(loader.path)

\* the load in progress has run the lookup and the node named after the file
\* is not a dialect declaration
MismatchedDeclaration ==
  /\ "Locating" \in Range(steps)
  /\ \E i \in DOMAIN irdl_module :
       irdl_module[i].sym_name = DialectName(loader.path)
  /\ \A i \in DOMAIN irdl_module :
       irdl_module[i].sym_name = DialectName(loader.path)
         => irdl_module[i].kind # "irdl.dialect"

\* C6: a description file that compiles but has no top-level node named after
\* the file makes the load fail at the declaration check; make_dialect is not
\* called, no stub file is opened and the files are what they were before the
\* load.
C6_MissingDeclarationFails ==
  MissingDeclaration =>
    /\ pc \in {"Raised", "Failed"}
    /\ exc = "AssertionError"
    /\ steps[Len(steps)] = "Locating"
    /\ dialect_op = NoneNode
    /\ dialect = NoDialect
    /\ LoadRequest => builderCalls = 0 /\ stubOpens = 0 /\ fileOpens = 1
    /\ fs = fsBefore
    /\ pc = "Failed" => loader.module_name \notin DOMAIN sysModules

\* a load of a file without the expected declaration has failed
C6_Witness ==
  /\ MissingDeclaration /\ pc = "Failed" /\ LoadRequest
  /\ text = "nodecl"
  /\ frontEndCalls[loader.module_name] = 1
  /\ DStub \in DOMAIN fs /\ fs[DStub] = OldStub

\* C7 as stated: a description file whose node named after the file is not a
\* dialect declaration makes the load fail with an outcome that differs from
\* the outcome of a missing declaration; the node is not passed to
\* make_dialect and nothing is bound in the module.
C7_MismatchIsDistinctFailure ==
  MismatchedDeclaration =>
    /\ pc \in {"Raised", "Failed"}
    /\ exc # DeclarationCheck(NoneNode)
    /\ LoadRequest => builderCalls = 0
    /\ heap[target] = nsBefore

\* what holds of the code in that case: the load fails at the assertion, with
\* the AssertionError a missing declaration gives too
C7_MismatchFailsAtAssertion ==
  MismatchedDeclaration =>
    /\ pc \in {"Raised", "Failed"}
    /\ exc = "AssertionError"
    /\ LoadRequest => builderCalls = 0
    /\ heap[target] = nsBefore

\* C8 as stated: two successful loads of the same unchanged description file
\* in two process runs leave the same content in the stub file, whatever the
\* stub held before and whatever path string the file was found through.
C8_Original ==
  \A r1, r2 \in stubLog :
    r1.run # r2.run /\ r1.src = r2.src /\ r1.text = r2.text
      /\ r1.at = r2.at
      => r1.stub = r2.stub

\* C8 amended: two successful loads of the same unchanged description file in
\* two process runs, found through the same path string, leave the same stub
\* content, whatever the stub held before.
C8_StubDeterministic ==
  \A r1, r2 \in stubLog :
    r1.run # r2.run /\ r1.src = r2.src /\ r1.text = r2.text
      /\ r1.at = r2.at /\ r1.path = r2.path
      => r1.stub = r2.stub

\* the same file was loaded through the same path in two runs, the first one
\* over an older stub
C8_Witness ==
  /\ \E r1, r2 \in stubLog :
       /\ r1.run # r2.run /\ r1.src = r2.src /\ r1.text = r2.text
       /\ r1.path = r2.path
       /\ r1.stub = StubHeader(r1.path) \o GenerateDialectStubs(dialect)
  /\ pc = "Loaded" /\ run = 2
  /\ fsBefore[DStub] # OldStub

\* C9 as stated: no name is compiled more than once or bound more than once
\* in a process run, failed loads that are requested again included.
C9_Original ==
  \A n \in FullNames : frontEndCalls[n] <= 1 /\ bindCount[n] <= 1

\* C9 amended: in a process run a name is bound at most once and compiled at
\* most once per load of it: once for each load that failed and at most once
\* more, so never again after a load of it succeeded; a module in sys.modules
\* that came from a description file was compiled and bound.
C9_AtMostOncePerLoad ==
  \A n \in FullNames :
    /\ bindCount[n] <= 1
    /\ frontEndCalls[n] <= failedLoads[n] + 1
    /\ (/\ n \in DOMAIN sysModules /\ Idle
        /\ SplitExt(heap[sysModules[n]][SpecAttr].path)[2] = IrdlExt) =>
         bindCount[n] = 1 /\ frontEndCalls[n] >= 1

\* a name whose load failed after the compilation was requested again and
\* loaded
C9_Witness ==
  \E n \in FullNames :
    /\ failedLoads[n] = 1 /\ frontEndCalls[n] = 2 /\ bindCount[n] = 1
    /\ pc = "Loaded"

\* C10 as stated: the Dialect object is bound under the dialect name with its
\* first letter upper-cased and the other characters unchanged.
C10_Original ==
  pc = "Loaded" =>
    /\ CapitalizeKeepRest(dialect.name) \in DOMAIN heap[target]
    /\ heap[target][CapitalizeKeepRest(dialect.name)] = DialectValue(dialect)

\* C10 amended: the Dialect object is bound under the dialect name with its
\* first letter upper-cased and every other letter lower-cased.
C10_HandleName ==
  pc = "Loaded" =>
    \E k \in DOMAIN heap[target] :
      /\ heap[target][k] = DialectValue(dialect)
      /\ Len(k) = Len(dialect.name)
      /\ k[1] = Upper(dialect.name[1])
      /\ \A i \in 2..Len(k) : k[i] = Lower(dialect.name[i])
      /\ \A j \in DOMAIN heap[target] :
           heap[target][j] = DialectValue(dialect) => j = k

\* a dialect whose name has an upper-case letter after the first was loaded
C10_Witness ==
  /\ pc = "Loaded"
  /\ dialect.name = <<"a", "B">>
  /\ <<"A", "b">> \in DOMAIN heap[target]
  /\ <<"A", "B">> \notin DOMAIN heap[target]

\* the stub file of the load in progress has been opened for writing
StubOpened == "StubOpen" \in Range(steps) /\ steps[Len(steps)] # "StubOpen"

\* the location next to the description file of the load in progress: same
\* directory, same base name, stub extension
NextToSource ==
  Parent(SourceLoc)
    \o <<Upto(SourceLoc[Len(SourceLoc)],
              Len(SourceLoc[Len(SourceLoc)]) - Len(IrdlExt)) \o PyiExt>>

\* C11 as stated: whatever the candidate-directory string the description
\* file was found through (absolute, relative or empty), the stub file the
\* load writes is the file next to the description file, and no other file
\* is created or changed.
C11_StubNextToSource ==
  (StubOpened \/ pc = "Loaded") =>
    /\ NextToSource \in DOMAIN fs
    /\ \A l \in DOMAIN fs \ {NextToSource} :
         l \in DOMAIN fsBefore /\ fs[l] = fsBefore[l]

\* what holds of the code: the stub is next to the description file when the
\* path's directory part is not empty
C11_StubNextToSourceUnlessEmptyDirectory ==
  ((StubOpened \/ pc = "Loaded") /\ DirName(loader.path) # <<>>) =>
    /\ NextToSource \in DOMAIN fs
    /\ \A l \in DOMAIN fs \ {NextToSource} :
         l \in DOMAIN fsBefore /\ fs[l] = fsBefore[l]

\* os.path.isabs(p)
IsAbs(p) == p # <<>> /\ p[1] = "/"

\* the candidate directories of the last request, as the caller gave them
Candidates ==
  IF request.path.given THEN request.path.entries ELSE <<Cwd>>

\* C12 as stated: for every match the path the loader holds, which
\* exec_module opens, is an absolute path, whatever the form of the
\* candidate-directory string.
C12_Original ==
  pc = "Matched" => IsAbs(loader.path)

\* C12 amended: for every match the path the loader holds is the candidate
\* string joined with the target file name, as given: it is absolute exactly
\* when the candidate string is, and always when no candidate path set is
\* supplied; the file exec_module opens is the file find_spec saw.
C12_PathAsJoined ==
  pc = "Matched" =>
    /\ \E i \in DOMAIN Candidates :
         /\ loader.path \in {Candidates[i] \o BaseName(loader.path),
                             Candidates[i] \o <<"/">> \o BaseName(loader.path)}
         /\ IsAbs(loader.path) <=> IsAbs(Candidates[i])
         /\ ~IsAbs(Candidates[i]) =>
              SourceLoc = Resolve(Cwd \o <<"/">> \o Candidates[i])
                            \o <<BaseName(loader.path)>>
    /\ ~request.path.given => IsAbs(loader.path)
    /\ SourceLoc \in DOMAIN fs

\* matches through a relative and through an empty candidate string
C12_Witness ==
  /\ pc = "Matched"
  /\ request.path.given
  /\ ~IsAbs(loader.path)
  /\ SourceLoc = DFile

\* exec_module is running: a statement of it is the next step
InExecModule == pc \notin {"Unresolved", "Loaded", "Failed", "Raised"}

\* C13: no step of find_spec and no step of exec_module, completing or
\* raising, adds, removes or replaces an entry of sys.modules; the entries
\* change only in steps of the host runtime (it inserts the new module before
\* exec_module, removes it after exec_module raised, and starts empty).
C13_CoreLeavesCacheAlone ==
  [][/\ (requests' = requests + 1 /\ request'.kind = "find_spec") =>
          sysModules' = sysModules /\ heap' = heap
     /\ InExecModule => sysModules' = sysModules
     /\ sysModules' # sysModules =>
          \/ requests' = requests + 1 /\ request'.kind = "import"
          \/ pc = "Raised" /\ pc' = "Failed"
          \/ run' = run + 1]_vars

\* exec_module has raised after the stub was opened and the module is still
\* in sys.modules: the runtime has not removed it yet
C13_Witness ==
  /\ pc = "Raised"
  /\ loader.module_name \in DOMAIN sysModules
  /\ sysModules[loader.module_name] = target
  /\ "StubOpen" \in Range(steps)

\* the names the load in progress binds: the entity names and the handle
BoundNames == EntityNames(dialect) \cup {DialectHandle(dialect)}

\* C14 as stated: after a successful load no attribute other than the entity
\* names and the capitalized dialect name was added, and every attribute the
\* module had before the load has its prior value, also one whose name is an
\* entity name or the capitalized dialect name.
C14_Original ==
  pc = "Loaded" =>
    /\ DOMAIN heap[target] \ DOMAIN nsBefore \subseteq BoundNames
    /\ \A k \in DOMAIN nsBefore :
         k \in DOMAIN heap[target] /\ heap[target][k] = nsBefore[k]

\* C14 amended: until the bindings are injected the module's namespace is what
\* it was when exec_module was called; after a successful load no attribute
\* other than the entity names and the capitalized dialect name was added,
\* every attribute the module had before under another name has its prior
\* value, and an attribute it had before under one of those names is
\* overwritten by the binding.
C14_OnlyBoundNamesChange ==
  /\ (InExecModule /\ "Binding" \notin Range(steps)) => heap[target] = nsBefore
  /\ pc = "Loaded" =>
       /\ DOMAIN heap[target] \ DOMAIN nsBefore \subseteq BoundNames
       /\ DOMAIN nsBefore \subseteq DOMAIN heap[target]
       /\ \A k \in DOMAIN nsBefore \ BoundNames : heap[target][k] = nsBefore[k]
       /\ \A k \in DOMAIN nsBefore \cap BoundNames :
            /\ heap[target][k] # nsBefore[k]
            /\ heap[target][k].kind \in {"attr", "op", "dialect"}

\* a dialect with an operation named __name__ was loaded: the module's
\* __name__ is now the operation class
C14_Witness ==
  /\ pc = "Loaded"
  /\ NameAttr \in EntityNames(dialect)
  /\ nsBefore[NameAttr].kind = "str"
  /\ heap[target][NameAttr] = Entity("op", NameAttr)
  /\ heap[target][FileAttr] = nsBefore[FileAttr]

\* the step of the state machine a statement of exec_module belongs to
StepOf(p) ==
  CASE p \in {"Matched", "Reading"} -> "Reading"
    [] p = "Compiling" -> "Compiling"
    [] p = "Locating" -> "Locating-Declaration"
    [] p = "Building" -> "Building"
    [] p \in {"StubOpen", "StubHeader", "StubRender", "StubBody"}
         -> "Writing-Stub"
    [] OTHER -> "Binding"

StepOrder ==
  <<"Reading", "Compiling", "Locating-Declaration", "Building",
    "Writing-Stub", "Binding">>

\* the position of a step in the order
StepIndex(s) == CHOOSE i \in DOMAIN StepOrder : StepOrder[i] = s

\* the statements executed so far are, in order, the first statements of
\* exec_module, each once
InPipelineOrder(log) ==
  /\ Len(log) <= Len(FullPipeline)
  /\ \A i \in DOMAIN log : log[i] = FullPipeline[i]

\* C15: a load visits its steps in the order Reading, Compiling,
\* Locating-Declaration, Building, Writing-Stub, Binding, Loaded and runs no
\* statement twice; a statement runs only when every statement before it has
\* completed (the stub is opened only after make_dialect returned, the
\* bindings are injected only after the second print into the stub); after a
\* statement raised no statement of the load runs; Loaded and Failed are left
\* only by a new request or a new process run.
C15_StepOrder ==
  [][/\ InPipelineOrder(steps')
     /\ \A i \in 1..(Len(steps') - 1) :
          StepIndex(StepOf(steps'[i])) <= StepIndex(StepOf(steps'[i + 1]))
     /\ steps' # steps =>
          \/ steps' = <<>> /\ pc \in {"Unresolved", "Loaded", "Failed"}
          \/ steps' = Append(steps, pc) /\ InExecModule
     /\ (InExecModule /\ pc' # "Raised") => steps' = Append(steps, pc)
     /\ "StubOpen" \in Range(steps') =>
          "Building" \in Range(steps') /\ dialect' # NoDialect
     /\ "Binding" \in Range(steps') =>
          "StubBody" \in Range(steps') /\ ~stubOpen'
     /\ (target' # 0 /\ heap'[target'] # nsBefore') =>
          "Binding" \in Range(steps')
     /\ pc = "Raised" => pc' = "Failed" /\ steps' = steps
     /\ pc' = "Loaded" => steps' = FullPipeline
     /\ pc \in {"Loaded", "Failed"} =>
          \/ pc' = pc /\ steps' = steps
          \/ pc' = "Matched" /\ steps' = <<>> /\ requests' = requests + 1
          \/ pc' = "Unresolved" /\ run' = run + 1]_vars

\* a load that failed was followed, in the same process run, by a load of the
\* same name that ran every statement once and ended in Loaded
C15_Witness ==
  /\ pc = "Loaded"
  /\ steps = FullPipeline
  /\ failedLoads[loader.module_name] = 1
  /\ run = 1
  /\ requests = 2

\* C16: a call of find_spec for a name that is in sys.modules returns the
\* __spec__ recorded on the cached module, as it is, with no os.path.isfile
\* call and no new loader, whatever path is passed and whether or not a
\* description file for the name is in a candidate directory; nothing changes.
C16_CachedSpecReturned ==
  [][(/\ requests' = requests + 1
      /\ request'.kind = "find_spec"
      /\ request'.name \in DOMAIN sysModules)
     => /\ result'.kind = "spec"
        /\ result'.spec = heap[sysModules[request'.name]][SpecAttr]
        /\ isfileChecks' = 0
        /\ loadersCreated' = 0
        /\ fileOpens' = 0
        /\ UNCHANGED <<fs, sysModules, heap, pc, loader>>]_vars

\* find_spec was called for a loaded name with a path in which no candidate
\* directory holds a description file for it, and returned the cached spec,
\* whose path is in a directory that was not passed
C16_Witness ==
  /\ request.kind = "find_spec"
  /\ request.name \in DOMAIN sysModules
  /\ \A i \in DOMAIN Candidates :
       Resolve(PathJoin(Candidates[i], LastSegment(request.name) \o IrdlExt))
         \notin DOMAIN fs
  /\ result.kind = "spec"
  /\ result.spec = heap[sysModules[request.name]][SpecAttr]
  /\ Resolve(result.spec.path) = EFile
  /\ isfileChecks = 0

\* a candidate directory of request r holds a Python source file for its name
NativeFile(r) ==
  \E i \in DOMAIN (IF r.path.given THEN r.path.entries ELSE <<Cwd>>) :
    Resolve(PathJoin((IF r.path.given THEN r.path.entries ELSE <<Cwd>>)[i],
                     LastSegment(r.name) \o PyExt)) \in DOMAIN fs

\* C17: the finder is the last one consulted.  An import of a name that a
\* finder of the runtime satisfies is served by the runtime: find_spec is
\* not called, no loader is created, exec_module does not run and no file is
\* opened or written, also when a description file for the name exists.  When
\* the finder matches, the runtime calls exec_module of the loader of that
\* spec before it serves any other request, and once: the load's first
\* statement runs once.
C17_LastInChain ==
  [][/\ (/\ requests' = requests + 1
         /\ request'.kind = "import"
         /\ request'.name \notin DOMAIN sysModules
         /\ NativeFile(request'))
        => /\ result'.kind = "module"
           /\ sysModules'[request'.name] = result'.id
           /\ SplitExt(heap'[result'.id][SpecAttr].path)[2] = PyExt
           /\ isfileChecks' = 0 /\ loadersCreated' = 0 /\ fileOpens' = 0
           /\ UNCHANGED <<fs, pc, steps, loader, target, frontEndCalls,
                          bindCount>>
     /\ (pc' = "Matched" /\ requests' = requests + 1)
        => /\ loader'.path = heap'[target'][SpecAttr].path
           /\ loader'.module_name = request'.name
           /\ sysModules'[request'.name] = target'
           /\ loadersCreated' = 1
     /\ pc = "Matched" =>
          steps' = <<"Matched">> /\ requests' = requests /\ loader' = loader
     /\ Cardinality({i \in DOMAIN steps' : steps'[i] = "Matched"}) <= 1
     /\ pc' \in {"Loaded", "Raised", "Failed"} => steps'[1] = "Matched"]_vars

\* the name c was imported with c.py and c.irdl both in the working
\* directory: the runtime loaded c.py and the finder was not asked
C17_Witness ==
  /\ request.kind = "import" /\ request.name = <<"c">>
  /\ CFile \in DOMAIN fs /\ CPy \in DOMAIN fs
  /\ result.kind = "module"
  /\ Resolve(heap[result.id][SpecAttr].path) = CPy
  /\ isfileChecks = 0 /\ loadersCreated = 0
  /\ pc = "Unresolved"

\* s is the part of fullname after its last dot (all of it when it has none)
IsLastSegment(s, fullname) ==
  /\ Len(s) <= Len(fullname)
  /\ \A i \in DOMAIN s : s[i] # "."
  /\ s = SubSeq(fullname, Len(fullname) - Len(s) + 1, Len(fullname))
  /\ Len(s) < Len(fullname) => fullname[Len(fullname) - Len(s)] = "."

\* the candidate directories of the last request that hold a file called f
HoldersOf(f) ==
  {i \in DOMAIN Candidates :
     Resolve(PathJoin(Candidates[i], f)) \in DOMAIN fs}

\* C18: for a name that is not in sys.modules, find_spec looks for the file
\* named by the last dot-separated segment of the name plus ".irdl": it
\* returns a spec exactly when a candidate directory holds that file, whatever
\* files named after the other segments exist, and the spec's file has that
\* name.  Without a path it makes one os.path.isfile call, in the current
\* working directory.
C18_TargetFilename ==
  (request.kind = "find_spec" /\ request.name \notin DOMAIN sysModules) =>
    \E s \in {LastSegment(n) : n \in FullNames} :
      /\ IsLastSegment(s, request.name)
      /\ (result.kind = "spec") <=> (HoldersOf(s \o IrdlExt) # {})
      /\ result.kind = "spec" =>
           /\ BaseName(result.spec.path) = s \o IrdlExt
           /\ result.spec.name = request.name
      /\ ~request.path.given =>
           /\ isfileChecks = 1
           /\ result.kind = "spec" =>
                Resolve(result.spec.path) = Resolve(Cwd) \o <<s \o IrdlExt>>

\* find_spec for c.aB, with c.irdl in one candidate directory and aB.irdl in
\* another one, returned a spec for aB.irdl
C18_Witness ==
  /\ request.kind = "find_spec" /\ request.name = <<"c", ".", "a", "B">>
  /\ request.name \notin DOMAIN sysModules
  /\ CFile \in DOMAIN fs
  /\ result.kind = "spec"
  /\ Resolve(result.spec.path) = EFile

\* C19 as stated: when a load has failed, at whichever step, the files are
\* what they were when exec_module was called: the stub file is absent if it
\* was absent and has its prior content otherwise.
C19_Original ==
  pc \in {"Raised", "Failed"} => fs = fsBefore

\* C19 amended: a load that failed before the stub file was opened, or in
\* opening it, leaves every file as it was.  A load that failed after the
\* stub file was opened leaves the stub file truncated, whatever it held
\* before: empty when the header print failed, the header alone when the
\* renderer or the second print failed; every other file is as it was.
C19_StubAfterFailure ==
  pc \in {"Raised", "Failed"} =>
    IF steps[Len(steps)] \in {"StubHeader", "StubRender", "StubBody"}
    THEN /\ StubLoc \in DOMAIN fs
         /\ fs[StubLoc] = IF steps[Len(steps)] = "StubHeader" THEN <<>>
                          ELSE StubHeader(loader.path)
         /\ \A l \in DOMAIN fs \ {StubLoc} :
              l \in DOMAIN fsBefore /\ fs[l] = fsBefore[l]
         /\ DOMAIN fsBefore \subseteq DOMAIN fs
    ELSE fs = fsBefore

\* the renderer failed in a load of a description file that had a stub from
\* an earlier version: the stub now holds the header alone
C19_Witness ==
  /\ pc = "Failed" /\ exc = "RenderError"
  /\ StubLoc = DStub
  /\ DStub \in DOMAIN fsBefore
  /\ fsBefore[DStub] = OldStub
  /\ fs[DStub] = StubHeader(loader.path)

\* C20: when exec_module has returned or raised, from whichever statement,
\* the description file and the stub file are closed.  The stub file is open
\* only inside the block that holds the description file open and only after
\* make_dialect returned; a load that failed in the read, the compilation, the
\* lookup, the kind check or the build never opened a stub file.
C20_HandlesClosed ==
  /\ ~InExecModule => ~srcOpen /\ ~stubOpen
  /\ stubOpen => srcOpen /\ "Building" \in Range(steps) /\ dialect # NoDialect
  /\ (/\ pc \in {"Raised", "Failed"}
      /\ LoadRequest
      /\ steps[Len(steps)] \in
           {"Matched", "Reading", "Compiling", "Locating", "Building"})
     => stubOpens = 0 /\ fileOpens = 1 /\ fs = fsBefore

\* the second print into the stub raised while both files were open:
\* exec_module has been left and both are closed
C20_Witness ==
  /\ pc = "Raised"
  /\ steps[Len(steps)] = "StubBody"
  /\ LoadRequest /\ fileOpens = 2 /\ stubOpens = 1
  /\ ~srcOpen /\ ~stubOpen

====
